---- MODULE Spec2Model ----
(***************************************************************************)
(* Seat allocation for the German Bundestag (btw_allocation_model.py).     *)
(*                                                                         *)
(* The program is a pipeline of pure functions over pandas tables.  Each   *)
(* divisor search (sainte_lague, get_gesamtzahl_bundestagssitze_pro_partei,*)
(* sainte_lague_final) is a while loop; one action below is one evaluation *)
(* of a loop test together with the loop body it guards.                   *)
(*                                                                         *)
(* Floating point.  A divisor is the float  (s / t) * f  where s is a sum  *)
(* of weights, t the target and f the product of the step factors applied  *)
(* so far.  s and t are kept exactly; f is kept in fixed point with        *)
(* ScaleBits binary digits and every multiplication by a step factor is    *)
(* rounded to nearest, as the float multiplication is.  Division by zero   *)
(* gives inf or NaN as numpy does, NaN is skipped by sum() and max().      *)
(***************************************************************************)
EXTENDS Integers, FiniteSets, Sequences, TLC

\* ------------------------------------------------------------------ bounds
\* Weights of a direct sainte_lague call are drawn from 0..MaxWeight.
MaxWeight == 3
\* Targets of a direct sainte_lague call are drawn from MinTarget..MaxTarget,
\* MinTarget == 0 - MaxNegTarget.
MaxTarget == 4
MaxNegTarget == 1
\* Population of BL2, in units of the population of BL1: 1..MaxBevoelkerung.
MaxBevoelkerung == 2
\* Zweitstimmen of a party in a Wahlkreis: 0..MaxZweitstimmen.
MaxZweitstimmen == 1
\* Binary digits of the fixed-point step-factor product.
ScaleBits == 20
\* The factor product is treated as overflowed to inf above MaxGrowth.
MaxGrowth == 4

\* ------------------------------------------------------- program constants
\* divisor*=0.999  is  divisor - divisor/ShrinkDen
ShrinkDen == 1000
\* divisor*=1.001  is  divisor + divisor/GrowDen
GrowDen == 1000
\* divisor*=0.9999  is  divisor - divisor/FloorShrinkDen
FloorShrinkDen == 10000
\* anzahl_sitze_parlament=598.0
AnzahlSitzeParlament == 598
\* funf_prozent_berechnung.values>=0.05, as 1/20
FunfProzentDen == 20
\* wahlkreis_hurde_berechnung.values>=3
WahlkreisHurde == 3
\* Binary digits after the leading one of a float64, the type of divisor.
MantissaBits == 52

\* ------------------------------------------------------------- input shape
Parteien == {"A", "B"}
\* Column order of the party columns (idxmax returns the first maximum).
ParteiSpalten == <<"A", "B">>
Bundeslaender == {"BL1", "BL2"}
Wahlkreise == {"w1", "w2", "w3"}
\* The 'Bundesland' column of the Wahlkreis tables.
BundeslandVon == [w \in Wahlkreise |-> IF w = "w3" THEN "BL2" ELSE "BL1"]
\* Index of the table handed to a direct sainte_lague call.
Keys == {"k1", "k2", "k3"}
\* Erststimmen rows of a Wahlkreis: A ahead, or B ahead.
ErststimmenZeilen == { [p \in Parteien |-> IF p = "A" THEN 1 ELSE 0],
                       [p \in Parteien |-> IF p = "B" THEN 1 ELSE 0] }

\* ------------------------------------------------------------ float values
\* The float NaN (0/0).  sum() and max() skip it, every comparison with it is
\* False.
NaN == 0 - 999999999

Abs(x) == IF x < 0 THEN 0 - x ELSE x

Scale == 2 ^ ScaleBits

\* Largest step-factor product that is still finite.
MaxFactor == MaxGrowth * Scale

\* round() of numpy and pandas: a / b to the nearest integer, a tie to the
\* even one (a >= 0, b > 0).
RoundHalfEven(a, b) ==
    LET q == a \div b
        r == a % b
    IN  IF 2 * r > b \/ (2 * r = b /\ q % 2 = 1) THEN q + 1 ELSE q

\* <<quotient, remainder>> of (a * 2^n) by b, one binary digit at a time.
RECURSIVE LongDiv(_, _, _, _)
LongDiv(q, r, b, n) ==
    IF n = 0 THEN <<q, r>>
    ELSE IF 2 * r >= b THEN LongDiv(2 * q + 1, 2 * r - b, b, n - 1)
                       ELSE LongDiv(2 * q, 2 * r, b, n - 1)

\* round((a * Scale) / b), a >= 0, b > 0.
RoundScaled(a, b) ==
    LET qr == LongDiv(a \div b, a % b, b, ScaleBits)
        q  == qr[1]
        r  == qr[2]
    IN  IF 2 * r > b \/ (2 * r = b /\ q % 2 = 1) THEN q + 1 ELSE q

\* sum() of a one-column table, NaN skipped.
RECURSIVE SumOver(_, _)
SumOver(f, S) ==
    IF S = {} THEN 0
    ELSE LET k == CHOOSE x \in S : TRUE
         IN  (IF f[k] = NaN THEN 0 ELSE f[k]) + SumOver(f, S \ {k})

Sum(f) == SumOver(f, DOMAIN f)

\* divisor = values.sum()/target: the float s/t times the step-factor
\* product f/Scale.
Divide(s, t) == [s |-> s, t |-> t, f |-> Scale]

\* What kind of float a divisor is.
Kind(d) ==
    IF d.t = 0 THEN (IF d.s = 0 THEN "nan" ELSE "inf")
    ELSE IF d.s = 0 THEN "zero"
    ELSE IF d.f > MaxFactor THEN "inf"
    ELSE "finite"

\* <<remainder, last quotient bit>> after n more binary digits of the
\* division by t.
RECURSIVE Digits(_, _, _, _)
Digits(r, b, t, n) ==
    IF n = 0 THEN <<r, b>>
    ELSE IF 2 * r >= t THEN Digits(2 * r - t, 1, t, n - 1)
                       ELSE Digits(2 * r, 0, t, n - 1)

\* <<s', t'>> with s'/t' = (s/t) * 2^k in [1, 2)  (s > 0, t > 0).
RECURSIVE Normalise(_, _)
Normalise(s, t) ==
    IF s >= 2 * t THEN Normalise(s, 2 * t)
    ELSE IF s < t THEN Normalise(2 * s, t)
    ELSE <<s, t>>

\* The largest power of two that is <= h  (h >= 1).
RECURSIVE PowerBelow(_)
PowerBelow(h) == IF h < 2 THEN 1 ELSE 2 * PowerBelow(h \div 2)

\* The float v / (s / t) when v*t/s is exactly m + 1/2: the float64 division
\* s/t is rounded to MantissaBits digits after the leading one, and dividing
\* v by the rounded value gives the tie itself (0), a float above it (1) or a
\* float below it (-1).  rho/t' is the rounding error of s/t in units of its
\* last place; the quotient leaves the tie when that error, scaled by the
\* ratio of the two mantissas, exceeds half a unit in the last place.
TieSide(v, s, t) ==
    LET h    == (2 * v * t) \div s
        st   == Normalise(s, t)
        rb   == Digits(st[1] - st[2], 1, st[2], MantissaBits)
        r    == rb[1]
        rho  == IF 2 * r < st[2] THEN 0 - r
                ELSE IF 2 * r > st[2] THEN st[2] - r
                ELSE IF rb[2] = 1 THEN st[2] - r ELSE 0 - r
        lhs  == 2 * h * Abs(rho)
        rhs  == st[1] * PowerBelow(h)
    IN  IF rho = 0 THEN 0
        ELSE IF rho < 0 THEN (IF lhs >= rhs THEN 1 ELSE 0)
        ELSE (IF lhs > rhs THEN 0 - 1 ELSE 0)

\* round(v / (s / t)) before any step factor is applied  (v >= 0, s, t > 0).
InitialQuotient(v, s, t) ==
    LET q == (v * t) \div s
        r == (v * t) % s
    IN  IF 2 * r # s THEN (IF 2 * r > s THEN q + 1 ELSE q)
        ELSE IF TieSide(v, s, t) = 1 THEN q + 1
        ELSE IF TieSide(v, s, t) = 0 - 1 THEN q
        ELSE IF q % 2 = 1 THEN q + 1 ELSE q

\* round(v / d) for one weight v >= 0.  A zero divisor is the sum of
\* non-negative weights that are all zero, so only 0/0 arises there.
Quotient(v, d) ==
    CASE Kind(d) = "nan"    -> NaN
      [] Kind(d) = "zero"   -> NaN
      [] Kind(d) = "inf"    -> 0
      [] Kind(d) = "finite" ->
            LET magnitude == IF d.f = Scale
                               THEN InitialQuotient(v, d.s, Abs(d.t))
                               ELSE RoundScaled(v * Abs(d.t), d.s * d.f)
            IN  IF d.t > 0 THEN magnitude ELSE 0 - magnitude

\* round(values/divisor)
Allocate(values, d) == [k \in DOMAIN values |-> Quotient(values[k], d)]

\* The divisor halved at every step.
TimesShrinkByHalf(d) ==
    IF Kind(d) # "finite" THEN d
    ELSE [d EXCEPT !.f = d.f - RoundHalfEven(d.f, 2)]

\* The step of the floor search, 0.9999, used in place of 0.999.
TimesShrinkByFloorStep(d) ==
    IF Kind(d) # "finite" THEN d
    ELSE [d EXCEPT !.f = d.f - RoundHalfEven(d.f, FloorShrinkDen)]

\* divisor*=0.999
TimesShrink(d) ==
    IF Kind(d) # "finite" THEN d
    ELSE [d EXCEPT !.f = d.f - RoundHalfEven(d.f, ShrinkDen)]

\* divisor*=1.001
TimesGrow(d) ==
    IF Kind(d) # "finite" THEN d
    ELSE [d EXCEPT !.f = d.f + RoundHalfEven(d.f, GrowDen)]

\* divisor*=0.9999
TimesFloorShrink(d) ==
    IF Kind(d) # "finite" THEN d
    ELSE [d EXCEPT !.f = d.f - RoundHalfEven(d.f, FloorShrinkDen)]

\* max() of two floats, NaN skipped.
MaxSkipNaN(x, y) ==
    IF x = NaN THEN y ELSE IF y = NaN THEN x ELSE IF x >= y THEN x ELSE y

\* The rounded quotients returned without the floors applied.
InterimWithoutMinima(allocations, minima) == allocations

\* pd.concat([allocations, minima]).max(level=0): the larger of the two on
\* every label either has.
Interim(allocations, minima) ==
    [k \in (DOMAIN allocations) \cup (DOMAIN minima) |->
        IF k \notin DOMAIN minima THEN allocations[k]
        ELSE IF k \notin DOMAIN allocations THEN minima[k]
        ELSE MaxSkipNaN(allocations[k], minima[k])]

\* ------------------------------------------------------------------- state
VARIABLES
    pc,          \* the statement about to be executed
    caller,      \* who called the running sainte_lague / sainte_lague_final
    values,      \* sainte_lague(values, ...); zweitstimmen_pro_q_partei
    minima,      \* sainte_lague_final(.., minima, ..); mindestsitzzahlen_pro_partei
    target,      \* sainte_lague(.., target)
    divisor,
    allocations,
    previous,    \* history: the divisor before the latest  divisor*=  step
    branch,      \* history: the branch of the if / elif chain that was taken
    first,       \* history: the arguments and result of an earlier direct call
    bevoelkerung_pro_bundesland,
    erststimmen_pro_partei_pro_wahlkreis,
    zweitstimmen_pro_partei_pro_wahlkreis,
    wahlkreissitze_pro_partei_pro_bundesland,
    sitze_pro_bundesland,
    qualifizierte_parteien,
    listensitze_pro_partei_pro_bundesland,
    mindestsitzzahlen_pro_partei_pro_bundesland,
    gesamtzahl_bundestagssitze_pro_partei,
    sitze_pro_bundesland_pro_partei_final,
    d,           \* the dict d of the two for loops
    i,           \* the loop variable of the running for loop, "" outside
    error        \* the exception that ended the run, "" if none

frame == <<values, minima, target, divisor, allocations, previous, branch>>
inputs == <<bevoelkerung_pro_bundesland, erststimmen_pro_partei_pro_wahlkreis,
            zweitstimmen_pro_partei_pro_wahlkreis>>
tables == <<wahlkreissitze_pro_partei_pro_bundesland, sitze_pro_bundesland,
            qualifizierte_parteien, listensitze_pro_partei_pro_bundesland,
            mindestsitzzahlen_pro_partei_pro_bundesland,
            gesamtzahl_bundestagssitze_pro_partei,
            sitze_pro_bundesland_pro_partei_final>>
loop == <<d, i>>
vars == <<pc, caller, frame, first, inputs, tables, loop, error>>

\* A table with no rows; a name not yet bound.
Empty == [x \in {} |-> 0]

NoFrame ==
    /\ values = Empty /\ minima = Empty /\ target = 0
    /\ divisor = Divide(0, 0) /\ allocations = Empty
    /\ previous = Divide(0, 0) /\ branch = "none"

NoTables ==
    /\ wahlkreissitze_pro_partei_pro_bundesland = Empty
    /\ sitze_pro_bundesland = Empty
    /\ qualifizierte_parteien = {}
    /\ listensitze_pro_partei_pro_bundesland = Empty
    /\ mindestsitzzahlen_pro_partei_pro_bundesland = Empty
    /\ gesamtzahl_bundestagssitze_pro_partei = Empty
    /\ sitze_pro_bundesland_pro_partei_final = Empty

\* ------------------------------------------------------------ sainte_lague
\* divisor=values.sum()/target ; allocations = round(values/divisor)
SainteLagueEnter ==
    /\ pc = "sainte_lague"
    /\ divisor' = Divide(Sum(values), target)
    /\ allocations' = Allocate(values, divisor')
    /\ previous' = divisor'
    /\ branch' = "none"
    /\ pc' = "sl_if"
    /\ UNCHANGED <<caller, values, minima, target, first, inputs, tables, loop, error>>

\* if allocations.sum() == target: return / elif < target / elif > target
SainteLagueIf ==
    /\ pc = "sl_if"
    /\ IF Sum(allocations) = target
         THEN pc' = "sl_return" /\ branch' = "equal"
         ELSE IF Sum(allocations) < target
                THEN pc' = "sl_while_lt" /\ branch' = "shrink"
                ELSE pc' = "sl_while_gt" /\ branch' = "grow"
    /\ UNCHANGED <<caller, values, minima, target, divisor, allocations, previous,
                   first, inputs, tables, loop, error>>

\* while allocations.sum()<target: divisor*=0.999 ; allocations = round(..)
SainteLagueShrink ==
    /\ pc = "sl_while_lt"
    /\ Sum(allocations) < target
    /\ previous' = divisor
    /\ divisor' = TimesShrink(divisor)
    /\ allocations' = Allocate(values, divisor')
    /\ UNCHANGED <<pc, caller, values, minima, target, branch, first, inputs,
                   tables, loop, error>>

\* the while test fails: return allocations
SainteLagueShrinkReturn ==
    /\ pc = "sl_while_lt"
    /\ ~(Sum(allocations) < target)
    /\ pc' = "sl_return"
    /\ UNCHANGED <<caller, frame, first, inputs, tables, loop, error>>

\* while allocations.sum()>target: divisor*=1.001 ; allocations = round(..)
SainteLagueGrow ==
    /\ pc = "sl_while_gt"
    /\ Sum(allocations) > target
    /\ previous' = divisor
    /\ divisor' = TimesGrow(divisor)
    /\ allocations' = Allocate(values, divisor')
    /\ UNCHANGED <<pc, caller, values, minima, target, branch, first, inputs,
                   tables, loop, error>>

SainteLagueGrowReturn ==
    /\ pc = "sl_while_gt"
    /\ ~(Sum(allocations) > target)
    /\ pc' = "sl_return"
    /\ UNCHANGED <<caller, frame, first, inputs, tables, loop, error>>

\* ------------------------------------------- direct calls of sainte_lague
MinTarget == 0 - MaxNegTarget

\* populations [60, 40]
Scenario6040 == [k \in Keys |-> IF k = "k1" THEN 60 ELSE IF k = "k2" THEN 40 ELSE 0]

InitSainteLague ==
    /\ pc = "sainte_lague"
    /\ caller = "direct"
    /\ \/ values \in [Keys -> 0..MaxWeight] /\ target \in MinTarget..MaxTarget
       \/ values = Scenario6040 /\ target = 10
    /\ minima = Empty
    /\ divisor = Divide(0, 0) /\ allocations = Empty
    /\ previous = Divide(0, 0) /\ branch = "none"
    /\ first = Empty
    /\ bevoelkerung_pro_bundesland = Empty
    /\ erststimmen_pro_partei_pro_wahlkreis = Empty
    /\ zweitstimmen_pro_partei_pro_wahlkreis = Empty
    /\ NoTables
    /\ d = Empty /\ i = ""
    /\ error = ""

\* A second call with the same target and one weight raised.
SecondCall ==
    /\ pc = "sl_return"
    /\ caller = "direct"
    /\ first = Empty
    /\ \E k \in DOMAIN values : \E w \in (values[k] + 1)..MaxWeight :
          /\ first' = [values |-> values, target |-> target,
                       allocations |-> allocations, key |-> k]
          /\ values' = [values EXCEPT ![k] = w]
    /\ pc' = "sainte_lague"
    /\ UNCHANGED <<caller, minima, target, divisor, allocations, previous, branch,
                   inputs, tables, loop, error>>

NextSainteLague ==
    \/ SainteLagueEnter
    \/ SainteLagueIf
    \/ SainteLagueShrink
    \/ SainteLagueShrinkReturn
    \/ SainteLagueGrow
    \/ SainteLagueGrowReturn
    \/ SecondCall

SpecSainteLague == InitSainteLague /\ [][NextSainteLague]_vars

\* ------------------------------------------------------ sainte_lague_final
\* divisor=values.sum()/target ; allocations = round(values/divisor) ;
\* interim = pd.concat([allocations, minima]).max(level=0)
SainteLagueFinalEnter ==
    /\ pc = "sainte_lague_final"
    /\ divisor' = Divide(Sum(values), target)
    /\ allocations' = Allocate(values, divisor')
    /\ previous' = divisor'
    /\ branch' = "none"
    /\ pc' = "slf_if"
    /\ UNCHANGED <<caller, values, minima, target, first, inputs, tables, loop, error>>

\* if interim.sum() == target: return / elif < target / elif > target
SainteLagueFinalIf ==
    /\ pc = "slf_if"
    /\ IF Sum(Interim(allocations, minima)) = target
         THEN pc' = "slf_return" /\ branch' = "equal"
         ELSE IF Sum(Interim(allocations, minima)) < target
                THEN pc' = "slf_while_lt" /\ branch' = "shrink"
                ELSE pc' = "slf_while_gt" /\ branch' = "grow"
    /\ UNCHANGED <<caller, values, minima, target, divisor, allocations, previous,
                   first, inputs, tables, loop, error>>

\* while interim.sum()<target: divisor*=0.999 ; allocations ; interim
SainteLagueFinalShrink ==
    /\ pc = "slf_while_lt"
    /\ Sum(Interim(allocations, minima)) < target
    /\ previous' = divisor
    /\ divisor' = TimesShrink(divisor)
    /\ allocations' = Allocate(values, divisor')
    /\ UNCHANGED <<pc, caller, values, minima, target, branch, first, inputs,
                   tables, loop, error>>

SainteLagueFinalShrinkReturn ==
    /\ pc = "slf_while_lt"
    /\ ~(Sum(Interim(allocations, minima)) < target)
    /\ pc' = "slf_return"
    /\ UNCHANGED <<caller, frame, first, inputs, tables, loop, error>>

\* while interim.sum()>target: divisor*=1.001 ; allocations ; interim
SainteLagueFinalGrow ==
    /\ pc = "slf_while_gt"
    /\ Sum(Interim(allocations, minima)) > target
    /\ previous' = divisor
    /\ divisor' = TimesGrow(divisor)
    /\ allocations' = Allocate(values, divisor')
    /\ UNCHANGED <<pc, caller, values, minima, target, branch, first, inputs,
                   tables, loop, error>>

SainteLagueFinalGrowReturn ==
    /\ pc = "slf_while_gt"
    /\ ~(Sum(Interim(allocations, minima)) > target)
    /\ pc' = "slf_return"
    /\ UNCHANGED <<caller, frame, first, inputs, tables, loop, error>>

\* ------------------------------------------------------- the table stages
\* interim.iloc[:,1:].idxmax(axis=1): the first party column holding the
\* largest number of Erststimmen of Wahlkreis w.
Sieger(erststimmen, w) ==
    LET row == erststimmen[w]
        n == CHOOSE n \in 1..Len(ParteiSpalten) :
                /\ \A m \in 1..Len(ParteiSpalten) :
                      row[ParteiSpalten[m]] <= row[ParteiSpalten[n]]
                /\ \A m \in 1..(n - 1) :
                      row[ParteiSpalten[m]] < row[ParteiSpalten[n]]
    IN  ParteiSpalten[n]

\* groupby(['Bundesland', 'Sieger']).size() pivoted, fillna(0.): a row for
\* every party that won a Wahlkreis, a column for every Bundesland.
GetWahlkreissitze(erststimmen) ==
    [p \in {Sieger(erststimmen, w) : w \in DOMAIN erststimmen} |->
        [b \in {BundeslandVon[w] : w \in DOMAIN erststimmen} |->
            Cardinality({w \in DOMAIN erststimmen :
                            BundeslandVon[w] = b /\ Sieger(erststimmen, w) = p})]]

\* zweitstimmen.groupby('Bundesland').sum(), one party column of it.
ZweitstimmenProBundesland(zweitstimmen, p) ==
    [b \in {BundeslandVon[w] : w \in DOMAIN zweitstimmen} |->
        Sum([w \in {x \in DOMAIN zweitstimmen : BundeslandVon[x] = b} |->
                zweitstimmen[w][p]])]

\* zweitstimmen.sum()[1:], one party of it.
ZweitstimmenSumme(zweitstimmen, p) ==
    Sum([w \in DOMAIN zweitstimmen |-> zweitstimmen[w][p]])

\* The union of the parties with a Zweitstimmen share >= 0.05 (a share of
\* 0/0 is NaN and fails the comparison) and of those with >= 3 Wahlkreise.
GetQualifizierteParteien(erststimmen, zweitstimmen) ==
    LET alle == Sum([p \in Parteien |-> ZweitstimmenSumme(zweitstimmen, p)])
        parteien_mehr_als_funf_prozent ==
            {p \in Parteien :
                alle # 0 /\ FunfProzentDen * ZweitstimmenSumme(zweitstimmen, p) >= alle}
        wahlkreissitze == GetWahlkreissitze(erststimmen)
        parteien_min_drei_wahlkreise ==
            {p \in DOMAIN wahlkreissitze : Sum(wahlkreissitze[p]) >= WahlkreisHurde}
    IN  parteien_mehr_als_funf_prozent \cup parteien_min_drei_wahlkreise

\* pd.concat(d, axis=1).sum(axis=1, level=0) of the per-Bundesland results:
\* a row per qualified party, a column per Bundesland, NaN summed as 0.
ConcatListensitze(dict, parteien) ==
    [p \in parteien |->
        [b \in DOMAIN dict |-> IF dict[b][p] = NaN THEN 0 ELSE dict[b][p]]]

\* pd.concat([wahlkreissitze, listensitze]).max(level=0): a row for every
\* party of either table, the larger entry where both have one.
GetMindestsitzzahlen(wahlkreissitze, listensitze) ==
    [p \in (DOMAIN wahlkreissitze) \cup (DOMAIN listensitze) |->
        IF p \notin DOMAIN listensitze THEN wahlkreissitze[p]
        ELSE IF p \notin DOMAIN wahlkreissitze THEN listensitze[p]
        ELSE Interim(wahlkreissitze[p], listensitze[p])]

\* .any() in place of .all(): one party at its floor ends the search.
AnyFloorMet(alloc, floors) ==
    \E p \in DOMAIN alloc : alloc[p] # NaN /\ alloc[p] >= floors[p]

\* ((allocations >= mindestsitzzahlen_pro_partei)*1).all()[0]
AllFloorsMet(alloc, floors) ==
    \A p \in DOMAIN alloc : alloc[p] # NaN /\ alloc[p] >= floors[p]

\* ------------------------------------------- run_bundestagssitz_verteilung
\* Row order of bevoelkerung_pro_bundesland.
BundeslandIndex == <<"BL1", "BL2">>

\* The first Bundesland of the index that has no entry in dict yet.
NextBundesland(dict) ==
    LET n == CHOOSE n \in 1..Len(BundeslandIndex) :
                /\ BundeslandIndex[n] \notin DOMAIN dict
                /\ \A m \in 1..(n - 1) : BundeslandIndex[m] \in DOMAIN dict
    IN  BundeslandIndex[n]

InitRun ==
    /\ pc = "run"
    /\ caller = ""
    /\ NoFrame
    /\ first = Empty
    /\ bevoelkerung_pro_bundesland
          \in {[b \in Bundeslaender |-> IF b = "BL1" THEN 1 ELSE n] :
                  n \in 1..MaxBevoelkerung}
    /\ erststimmen_pro_partei_pro_wahlkreis \in [Wahlkreise -> ErststimmenZeilen]
    /\ zweitstimmen_pro_partei_pro_wahlkreis
          \in [Wahlkreise -> [Parteien -> 0..MaxZweitstimmen]]
    /\ NoTables
    /\ d = Empty /\ i = ""
    /\ error = ""

\* wahlkreissitze_pro_partei_pro_bundesland=get_wahlkreissitze_...(erststimmen)
RunWahlkreissitze ==
    /\ pc = "run"
    /\ wahlkreissitze_pro_partei_pro_bundesland'
          = GetWahlkreissitze(erststimmen_pro_partei_pro_wahlkreis)
    /\ pc' = "get_sitze_pro_bundesland"
    /\ UNCHANGED <<caller, frame, first, inputs, sitze_pro_bundesland,
                   qualifizierte_parteien, listensitze_pro_partei_pro_bundesland,
                   mindestsitzzahlen_pro_partei_pro_bundesland,
                   gesamtzahl_bundestagssitze_pro_partei,
                   sitze_pro_bundesland_pro_partei_final, loop, error>>

\* get_sitze_pro_bundesland: sainte_lague(bevoelkerung_pro_bundesland, 598.0)
CallSitzeProBundesland ==
    /\ pc = "get_sitze_pro_bundesland"
    /\ values' = bevoelkerung_pro_bundesland
    /\ target' = AnzahlSitzeParlament
    /\ minima' = Empty
    /\ caller' = "get_sitze_pro_bundesland"
    /\ pc' = "sainte_lague"
    /\ UNCHANGED <<divisor, allocations, previous, branch, first, inputs, tables,
                   loop, error>>

ReturnSitzeProBundesland ==
    /\ pc = "sl_return"
    /\ caller = "get_sitze_pro_bundesland"
    /\ sitze_pro_bundesland' = allocations
    /\ pc' = "get_qualifizierte_parteien"
    /\ UNCHANGED <<caller, frame, first, inputs,
                   wahlkreissitze_pro_partei_pro_bundesland,
                   qualifizierte_parteien, listensitze_pro_partei_pro_bundesland,
                   mindestsitzzahlen_pro_partei_pro_bundesland,
                   gesamtzahl_bundestagssitze_pro_partei,
                   sitze_pro_bundesland_pro_partei_final, loop, error>>

\* qualifizierte_parteien=get_qualifizierte_parteien(erststimmen, zweitstimmen)
RunQualifizierteParteien ==
    /\ pc = "get_qualifizierte_parteien"
    /\ qualifizierte_parteien'
          = GetQualifizierteParteien(erststimmen_pro_partei_pro_wahlkreis,
                                     zweitstimmen_pro_partei_pro_wahlkreis)
    /\ pc' = "get_listensitze"
    /\ UNCHANGED <<caller, frame, first, inputs,
                   wahlkreissitze_pro_partei_pro_bundesland, sitze_pro_bundesland,
                   listensitze_pro_partei_pro_bundesland,
                   mindestsitzzahlen_pro_partei_pro_bundesland,
                   gesamtzahl_bundestagssitze_pro_partei,
                   sitze_pro_bundesland_pro_partei_final, loop, error>>

\* for i in sitze_pro_bundesland.transpose(): d[i]=sainte_lague(
\*   the qualified parties' Zweitstimmen in i, the seats of i)
CallListensitze ==
    /\ pc = "get_listensitze"
    /\ DOMAIN d # DOMAIN sitze_pro_bundesland
    /\ i' = NextBundesland(d)
    /\ values' = [p \in qualifizierte_parteien |->
                    ZweitstimmenProBundesland(zweitstimmen_pro_partei_pro_wahlkreis, p)[i']]
    /\ target' = sitze_pro_bundesland[i']
    /\ minima' = Empty
    /\ caller' = "get_listensitze"
    /\ pc' = "sainte_lague"
    /\ UNCHANGED <<divisor, allocations, previous, branch, first, inputs, tables,
                   d, error>>

ReturnListensitze ==
    /\ pc = "sl_return"
    /\ caller = "get_listensitze"
    /\ d' = [b \in (DOMAIN d) \cup {i} |-> IF b = i THEN allocations ELSE d[b]]
    /\ pc' = "get_listensitze"
    /\ UNCHANGED <<caller, frame, first, inputs, tables, i, error>>

\* listensitze_pro_partei_pro_bundesland=pd.concat(d, axis=1).sum(axis=1, level=0)
RunListensitze ==
    /\ pc = "get_listensitze"
    /\ DOMAIN d = DOMAIN sitze_pro_bundesland
    /\ listensitze_pro_partei_pro_bundesland'
          = ConcatListensitze(d, qualifizierte_parteien)
    /\ d' = Empty /\ i' = ""
    /\ pc' = "get_mindestsitzzahlen"
    /\ UNCHANGED <<caller, frame, first, inputs,
                   wahlkreissitze_pro_partei_pro_bundesland, sitze_pro_bundesland,
                   qualifizierte_parteien,
                   mindestsitzzahlen_pro_partei_pro_bundesland,
                   gesamtzahl_bundestagssitze_pro_partei,
                   sitze_pro_bundesland_pro_partei_final, error>>

\* mindestsitzzahlen_pro_partei_pro_bundesland=get_mindestsitzzahlen_...(..)
RunMindestsitzzahlen ==
    /\ pc = "get_mindestsitzzahlen"
    /\ mindestsitzzahlen_pro_partei_pro_bundesland'
          = GetMindestsitzzahlen(wahlkreissitze_pro_partei_pro_bundesland,
                                 listensitze_pro_partei_pro_bundesland)
    /\ pc' = "get_gesamtzahl"
    /\ UNCHANGED <<caller, frame, first, inputs,
                   wahlkreissitze_pro_partei_pro_bundesland, sitze_pro_bundesland,
                   qualifizierte_parteien, listensitze_pro_partei_pro_bundesland,
                   gesamtzahl_bundestagssitze_pro_partei,
                   sitze_pro_bundesland_pro_partei_final, loop, error>>

\* get_gesamtzahl_bundestagssitze_pro_partei, up to its if: the floors per
\* party, the Zweitstimmen per qualified party, the divisor, the allocations
GesamtzahlEnter ==
    /\ pc = "get_gesamtzahl"
    /\ minima' = [p \in DOMAIN mindestsitzzahlen_pro_partei_pro_bundesland |->
                    Sum(mindestsitzzahlen_pro_partei_pro_bundesland[p])]
    /\ values' = [p \in qualifizierte_parteien |->
                    ZweitstimmenSumme(zweitstimmen_pro_partei_pro_wahlkreis, p)]
    /\ target' = Sum(minima')
    /\ divisor' = Divide(Sum(values'), Sum(minima'))
    /\ allocations' = Allocate(values', divisor')
    /\ previous' = divisor'
    /\ branch' = "none"
    /\ caller' = "get_gesamtzahl"
    /\ pc' = "gz_if"
    /\ UNCHANGED <<first, inputs, tables, loop, error>>

\* if ((allocations >= mindestsitzzahlen_pro_partei)*1).all()[0] == True:
\* the comparison of two frames raises ValueError unless they carry the same
\* labels
GesamtzahlIf ==
    /\ pc = "gz_if"
    /\ IF DOMAIN allocations # DOMAIN minima
         THEN pc' = "error" /\ error' = "ValueError" /\ branch' = branch
         ELSE IF AllFloorsMet(allocations, minima)
                THEN pc' = "gz_return" /\ branch' = "equal" /\ error' = error
                ELSE pc' = "gz_while" /\ branch' = "shrink" /\ error' = error
    /\ UNCHANGED <<caller, values, minima, target, divisor, allocations, previous,
                   first, inputs, tables, loop>>

\* while (..).all()[0] == False: divisor*=0.9999 ; allocations=round(..)
GesamtzahlShrink ==
    /\ pc = "gz_while"
    /\ ~AllFloorsMet(allocations, minima)
    /\ previous' = divisor
    /\ divisor' = TimesFloorShrink(divisor)
    /\ allocations' = Allocate(values, divisor')
    /\ UNCHANGED <<pc, caller, values, minima, target, branch, first, inputs,
                   tables, loop, error>>

GesamtzahlShrinkReturn ==
    /\ pc = "gz_while"
    /\ AllFloorsMet(allocations, minima)
    /\ pc' = "gz_return"
    /\ UNCHANGED <<caller, frame, first, inputs, tables, loop, error>>

ReturnGesamtzahl ==
    /\ pc = "gz_return"
    /\ gesamtzahl_bundestagssitze_pro_partei' = allocations
    /\ pc' = "get_final"
    /\ UNCHANGED <<caller, frame, first, inputs,
                   wahlkreissitze_pro_partei_pro_bundesland, sitze_pro_bundesland,
                   qualifizierte_parteien, listensitze_pro_partei_pro_bundesland,
                   mindestsitzzahlen_pro_partei_pro_bundesland,
                   sitze_pro_bundesland_pro_partei_final, loop, error>>

\* for i in qualifizierte_parteien: d[i]=sainte_lague_final(Zweitstimmen of i
\* per Bundesland, wahlkreissitze.transpose()[i], gesamtzahl.transpose()[i][0]).
\* The list comes from a set, so its order is any; a party without a row in
\* the Wahlkreissitze table raises KeyError.
CallFinal ==
    /\ pc = "get_final"
    /\ \E p \in qualifizierte_parteien \ DOMAIN d :
          IF p \notin DOMAIN wahlkreissitze_pro_partei_pro_bundesland
            THEN /\ pc' = "error" /\ error' = "KeyError"
                 /\ UNCHANGED <<caller, frame, i>>
            ELSE /\ i' = p
                 /\ values' = ZweitstimmenProBundesland(
                                  zweitstimmen_pro_partei_pro_wahlkreis, p)
                 /\ minima' = wahlkreissitze_pro_partei_pro_bundesland[p]
                 /\ target' = gesamtzahl_bundestagssitze_pro_partei[p]
                 /\ caller' = "get_sitze_pro_bundesland_pro_partei_final"
                 /\ pc' = "sainte_lague_final"
                 /\ UNCHANGED <<divisor, allocations, previous, branch, error>>
    /\ UNCHANGED <<first, inputs, tables, d>>

\* sainte_lague_final returns interim
ReturnFinal ==
    /\ pc = "slf_return"
    /\ d' = [p \in (DOMAIN d) \cup {i} |->
                IF p = i THEN Interim(allocations, minima) ELSE d[p]]
    /\ pc' = "get_final"
    /\ UNCHANGED <<caller, frame, first, inputs, tables, i, error>>

\* sitze_pro_bundesland_pro_partei_final= pd.concat(d, axis=1).sum(axis=1,
\* level=0), returned by run_bundestagssitz_verteilung: a column per
\* qualified party, NaN summed as 0.
RunFinal ==
    /\ pc = "get_final"
    /\ DOMAIN d = qualifizierte_parteien
    /\ sitze_pro_bundesland_pro_partei_final'
          = [p \in DOMAIN d |->
                [b \in DOMAIN d[p] |-> IF d[p][b] = NaN THEN 0 ELSE d[p][b]]]
    /\ d' = Empty /\ i' = ""
    /\ pc' = "done"
    /\ UNCHANGED <<caller, frame, first, inputs,
                   wahlkreissitze_pro_partei_pro_bundesland, sitze_pro_bundesland,
                   qualifizierte_parteien, listensitze_pro_partei_pro_bundesland,
                   mindestsitzzahlen_pro_partei_pro_bundesland,
                   gesamtzahl_bundestagssitze_pro_partei, error>>

\* The module is entered by a run of the whole pipeline or by a call of
\* sainte_lague.
Init == InitRun \/ InitSainteLague

Next ==
    \/ RunWahlkreissitze
    \/ CallSitzeProBundesland
    \/ SainteLagueEnter
    \/ SainteLagueIf
    \/ SainteLagueShrink
    \/ SainteLagueShrinkReturn
    \/ SainteLagueGrow
    \/ SainteLagueGrowReturn
    \/ ReturnSitzeProBundesland
    \/ RunQualifizierteParteien
    \/ CallListensitze
    \/ ReturnListensitze
    \/ RunListensitze
    \/ RunMindestsitzzahlen
    \/ GesamtzahlEnter
    \/ GesamtzahlIf
    \/ GesamtzahlShrink
    \/ GesamtzahlShrinkReturn
    \/ ReturnGesamtzahl
    \/ CallFinal
    \/ SainteLagueFinalEnter
    \/ SainteLagueFinalIf
    \/ SainteLagueFinalShrink
    \/ SainteLagueFinalShrinkReturn
    \/ SainteLagueFinalGrow
    \/ SainteLagueFinalGrowReturn
    \/ ReturnFinal
    \/ RunFinal
    \/ SecondCall

Spec == Init /\ [][Next]_vars

\* -------------------------------------------------------------- properties
\* The number of Wahlkreise of Bundesland b in which party p has more
\* Erststimmen than every other party.
Direktmandate(p, b) ==
    Cardinality({w \in Wahlkreise :
        /\ BundeslandVon[w] = b
        /\ \A q \in Parteien \ {p} :
              erststimmen_pro_partei_pro_wahlkreis[w][p]
                  > erststimmen_pro_partei_pro_wahlkreis[w][q]})

\* The Zweitstimmen of party p, in Bundesland b and in all of them.
Zweitstimmen(p, b) ==
    Sum([w \in {x \in Wahlkreise : BundeslandVon[x] = b} |->
            zweitstimmen_pro_partei_pro_wahlkreis[w][p]])

ZweitstimmenBund(p) == Sum([b \in Bundeslaender |-> Zweitstimmen(p, b)])

\* Sum of all cells of a table of rows.
Gesamt(table) == Sum([p \in DOMAIN table |-> Sum(table[p])])

\* C1: a call sainte_lague(values, target) with target > 0, no negative
\* weight and at least one positive weight returns non-negative integers
\* whose sum is exactly target.
C1_SumEqualsTarget ==
    (pc = "sl_return" /\ target > 0 /\ Sum(values) > 0)
        => /\ \A k \in DOMAIN allocations : allocations[k] \in Nat
           /\ Sum(allocations) = target

\* C2: in the table the run returns, the seats of every qualified party sum
\* over the Bundeslaender to exactly that party's national total.
C2_PartySumsEqualNationalTotal ==
    pc = "done"
        => \A p \in DOMAIN sitze_pro_bundesland_pro_partei_final :
              Sum(sitze_pro_bundesland_pro_partei_final[p])
                  = gesamtzahl_bundestagssitze_pro_partei[p]

\* C10: the table a run returns never holds fewer seats than the nominal
\* size of the parliament.
C10_AtLeastNominalSeats ==
    pc = "done"
        => Gesamt(sitze_pro_bundesland_pro_partei_final) >= AnzahlSitzeParlament

\* C7: a call of sainte_lague whose target is zero or negative, or whose
\* weights are all zero, does not return an allocation.
C7_DegenerateCallRaises ==
    (caller = "direct" /\ first = Empty /\ (target <= 0 \/ Sum(values) = 0))
        => pc # "sl_return"

Schwelle ==
    LET alle == Sum([q \in Parteien |-> ZweitstimmenBund(q)])
    IN  {p \in Parteien :
            \/ alle > 0 /\ FunfProzentDen * ZweitstimmenBund(p) >= alle
            \/ Sum([b \in Bundeslaender |-> Direktmandate(p, b)]) >= WahlkreisHurde}

\* C5: get_qualifizierte_parteien returns exactly the parties with at least
\* 5% of all Zweitstimmen or at least 3 Wahlkreise, and the run ends with a
\* table that has an entry for each of them and for no other party.
C5_TableCoversQualifiedParties ==
    /\ pc \in {"get_listensitze", "get_mindestsitzzahlen", "get_gesamtzahl",
               "get_final", "done"}
          => qualifizierte_parteien = Schwelle
    /\ pc \in {"done", "error"}
          => /\ pc = "done"
             /\ DOMAIN sitze_pro_bundesland_pro_partei_final = Schwelle

\* A party's national floor: over the Bundeslaender, the larger of its
\* direct mandates and its list seats.
Mindestsitze(p) ==
    Sum([b \in Bundeslaender |->
            IF Direktmandate(p, b) >= listensitze_pro_partei_pro_bundesland[p][b]
              THEN Direktmandate(p, b)
              ELSE listensitze_pro_partei_pro_bundesland[p][b]])

\* new is old times (1 - 1/den), as a float product rounds it.
ShrunkBy(old, new, den) ==
    /\ new.s = old.s /\ new.t = old.t
    /\ 2 * Abs(den * (old.f - new.f) - old.f) <= den

\* new is old times (1 + 1/den), as a float product rounds it.
GrownBy(old, new, den) ==
    /\ new.s = old.s /\ new.t = old.t
    /\ 2 * Abs(den * (new.f - old.f) - old.f) <= den

C3_Returned ==
    pc = "gz_return"
        => /\ DOMAIN allocations = qualifizierte_parteien
           /\ \A p \in qualifizierte_parteien : allocations[p] >= Mindestsitze(p)
           /\ divisor.s = Sum([p \in qualifizierte_parteien |-> ZweitstimmenBund(p)])
           /\ divisor.t = Sum([p \in qualifizierte_parteien |-> Mindestsitze(p)])
           /\ divisor.f <= Scale

C3_Rounded ==
    pc \in {"gz_if", "gz_while", "gz_return"}
        => \A p \in qualifizierte_parteien :
              allocations[p] = Quotient(ZweitstimmenBund(p), divisor)

C3_Search ==
    LET met == \A p \in qualifizierte_parteien : allocations[p] >= Mindestsitze(p)
    IN  /\ (pc = "gz_if" /\ pc' = "gz_return") => (met /\ divisor.f = Scale)
        /\ (pc = "gz_if" /\ pc' = "gz_while") => ~met
        /\ (pc = "gz_while" /\ pc' = "gz_return") => (met /\ divisor' = divisor)
        /\ (pc = "gz_while" /\ divisor' # divisor)
              => (~met /\ ShrunkBy(divisor, divisor', FloorShrinkDen))
        /\ (pc = "gz_while" /\ met) => pc' = "gz_return"

\* C3: whenever get_gesamtzahl_bundestagssitze_pro_partei returns, every
\* qualified party's total is at least its national floor (the sum over the
\* Bundeslaender of max(direct mandates, list seats)), and the totals are the
\* rounded votes/divisor at the first divisor of d0, d0*0.9999, d0*0.9999^2,
\* ... (d0 = qualified Zweitstimmen / sum of the floors) that meets all floors.
C3_NationalTotalsMeetFloors ==
    [](C3_Returned /\ C3_Rounded) /\ [][C3_Search]_vars

\* The floor loop ran and then returned totals that meet every floor.
C3_Witness ==
    /\ pc = "gz_return"
    /\ branch = "shrink"
    /\ divisor.f < Scale
    /\ \E p \in qualifizierte_parteien : allocations[p] = Mindestsitze(p)

\* C4: in the table the run returns, every party has in every Bundesland at
\* least as many seats as Wahlkreise it won there.
C4_FinalAtLeastDirectMandates ==
    pc = "done"
        => \A p \in DOMAIN sitze_pro_bundesland_pro_partei_final :
              \A b \in Bundeslaender :
                 sitze_pro_bundesland_pro_partei_final[p][b] >= Direktmandate(p, b)

\* A party holds exactly its direct mandates in a Bundesland where it has no
\* Zweitstimmen: the floor, not the quotient, gives it the seats.
C4_Witness ==
    /\ pc = "done"
    /\ \E p \in DOMAIN sitze_pro_bundesland_pro_partei_final :
          \E b \in Bundeslaender :
             /\ Direktmandate(p, b) > 0
             /\ Zweitstimmen(p, b) = 0
             /\ sitze_pro_bundesland_pro_partei_final[p][b] = Direktmandate(p, b)

\* q is the float v / dv rounded to the nearest integer, a quotient that is
\* exactly a half rounded to the even one.
RoundedQuotient(v, dv, q) ==
    CASE Kind(dv) = "finite" ->
            LET mag == IF dv.t > 0 THEN q ELSE 0 - q
                num == IF dv.f = Scale THEN v * Abs(dv.t) ELSE v * Abs(dv.t) * Scale
                den == IF dv.f = Scale THEN dv.s ELSE dv.s * dv.f
                off == 2 * Abs(num - mag * den)
                side == IF dv.f = Scale THEN TieSide(v, dv.s, Abs(dv.t)) ELSE 0
            IN  /\ q # NaN
                /\ off <= den
                /\ (off = den /\ side = 0) => mag % 2 = 0
                /\ (off = den /\ side = 1) => mag * den > num
                /\ (off = den /\ side = 0 - 1) => mag * den < num
      [] Kind(dv) = "inf" -> q = 0
      [] OTHER -> q = NaN

C9_Rounded ==
    pc \in {"sl_if", "sl_while_lt", "sl_while_gt", "sl_return"}
        => /\ DOMAIN allocations = DOMAIN values
           /\ \A k \in DOMAIN values :
                 RoundedQuotient(values[k], divisor, allocations[k])
           /\ divisor.s = Sum(values) /\ divisor.t = target
           /\ pc = "sl_while_lt" => (branch = "shrink" /\ divisor.f <= Scale)
           /\ pc = "sl_while_gt" => (branch = "grow" /\ divisor.f >= Scale)

C9_Scenario ==
    (pc = "sl_return" /\ values = Scenario6040 /\ target = 10)
        => /\ allocations["k1"] = 6 /\ allocations["k2"] = 4
           /\ divisor.f = Scale

C9_Search ==
    /\ pc = "sainte_lague" => divisor'.f = Scale
    /\ pc = "sl_if"
          => /\ divisor' = divisor
             /\ pc' = IF Sum(allocations) = target THEN "sl_return"
                      ELSE IF Sum(allocations) < target THEN "sl_while_lt"
                      ELSE "sl_while_gt"
    /\ pc = "sl_while_lt"
          => IF Sum(allocations) < target
               THEN /\ pc' = "sl_while_lt"
                    /\ IF Kind(divisor) = "finite"
                         THEN ShrunkBy(divisor, divisor', ShrinkDen)
                         ELSE divisor' = divisor
               ELSE pc' = "sl_return" /\ divisor' = divisor
                       /\ allocations' = allocations
    /\ pc = "sl_while_gt"
          => IF Sum(allocations) > target
               THEN /\ pc' = "sl_while_gt"
                    /\ IF Kind(divisor) = "finite"
                         THEN GrownBy(divisor, divisor', GrowDen)
                         ELSE divisor' = divisor
               ELSE pc' = "sl_return" /\ divisor' = divisor
                       /\ allocations' = allocations

\* C9: sainte_lague returns, for every key, weight/d rounded to the nearest
\* integer, a half to the even one, for one divisor d: sum(weights)/target if
\* that rounding sums to target ([60, 40] with target 10 gives 6 and 4 at that
\* divisor), else the first of d*0.999^k (sum below target) or of d*1.001^k
\* (sum above target) whose rounded sum is no longer below (above) target;
\* the direction is chosen once and kept.
C9_RoundedAtCommonDivisor ==
    [](C9_Rounded /\ C9_Scenario) /\ [][C9_Search]_vars

\* A call returned after the divisor was shrunk from a rounded sum below the
\* target, one weight having stood exactly on a half at the first divisor.
C9_Witness ==
    /\ pc = "sl_return"
    /\ branch = "shrink"
    /\ divisor.f < Scale
    /\ \E k \in DOMAIN values : 2 * values[k] * target = Sum(values)

\* C8: every divisor search ends: the loops of sainte_lague when target > 0
\* and some weight is positive, the floor loop of
\* get_gesamtzahl_bundestagssitze_pro_partei for any qualified parties, and
\* the loops of sainte_lague_final when the target is at least the sum of the
\* floors.  A search that ends is never at a divisor where its test says go
\* on and its step changes nothing.
C8_LoopsTerminate ==
    /\ (pc = "sl_while_lt" /\ target > 0 /\ Sum(values) > 0)
          => (~(Sum(allocations) < target) \/ TimesShrink(divisor) # divisor)
    /\ (pc = "sl_while_gt" /\ target > 0 /\ Sum(values) > 0)
          => (~(Sum(allocations) > target) \/ TimesGrow(divisor) # divisor)
    /\ (pc = "gz_while")
          => (AllFloorsMet(allocations, minima)
                \/ TimesFloorShrink(divisor) # divisor)
    /\ (pc = "slf_while_lt" /\ target >= Sum(minima))
          => (~(Sum(Interim(allocations, minima)) < target)
                \/ TimesShrink(divisor) # divisor)
    /\ (pc = "slf_while_gt" /\ target >= Sum(minima))
          => (~(Sum(Interim(allocations, minima)) > target)
                \/ TimesGrow(divisor) # divisor)

====
